---------------------------- MODULE Spec2Model ----------------------------
(***************************************************************************)
(* The IR Function (data-flow graph, layout, side arenas), the structural  *)
(* verifier verify_function, and the global-value legalization             *)
(* expand_global_value.                                                    *)
(*                                                                         *)
(* Entity handles are positive integers indexing their arena (a sequence); *)
(* handle k is printed as <kind>(k-1), the arenas of the source being      *)
(* 0-based.  0 stands for None.                                            *)
(***************************************************************************)
EXTENDS Integers, Sequences, FiniteSets, TLC

VARIABLES
    insts,          \* dfg.insts: Inst -> InstructionData
    results,        \* dfg results: Inst -> sequence of Values
    values,         \* dfg.values: Value -> ValueData
    ebbs,           \* dfg.ebbs: Ebb -> sequence of formal arguments
    layout_ebbs,    \* layout: the EBBs in program order
    layout_insts,   \* layout: Ebb -> its instructions in program order
    inst_ebb,       \* layout: Inst -> containing Ebb, or None
    signatures,     \* dfg.signatures: SigRef -> number of return types
    ext_funcs,      \* dfg.ext_funcs: FuncRef -> SigRef
    jump_tables,    \* func.jump_tables: number of jump tables
    global_values,  \* func.global_values: GlobalValue -> GlobalValueData
    vmctx,          \* special_param(VMContext): a Value, or None
    pointer_type,   \* isa.pointer_type()
    pc,             \* "build", "verified", "legalize", "panic"
    result,         \* what verify_function returned (NoResult before it ran)
    last            \* the last expansion: which one, on which Inst, and the state before it

vars == <<insts, results, values, ebbs, layout_ebbs, layout_insts, inst_ebb,
          signatures, ext_funcs, jump_tables, global_values, vmctx,
          pointer_type, pc, result, last>>

func_vars == <<insts, results, values, ebbs, layout_ebbs, layout_insts, inst_ebb,
               signatures, ext_funcs, jump_tables, global_values, vmctx,
               pointer_type>>

-----------------------------------------------------------------------------
(* Bounds of the model. *)

MaxEbbs == 2
MaxInsts == 2
MaxGlobalValues == 2
MaxGlobalValueInsts == 2

(* Room for every instruction an acyclic table can ask for: each           *)
(* global_value instruction and one fresh one per further global value of  *)
(* its chain, and the terminator.                                          *)
MaxLegalInsts == MaxGlobalValueInsts * MaxGlobalValues + 1

None == 0

VOID == "void"
I32 == "i32"
I64 == "i64"

-----------------------------------------------------------------------------
(* Opcodes: format, fixed result count, terminator flag. *)

Opcodes == {"iconst", "return", "jump", "br_table", "call", "call_indirect",
            "global_value", "symbol_value", "iadd_imm", "load"}

OpcodeFormat(opcode) ==
    CASE opcode = "iconst"        -> "UnaryImm"
      [] opcode = "return"        -> "MultiAry"
      [] opcode = "jump"          -> "Jump"
      [] opcode = "br_table"      -> "BranchTable"
      [] opcode = "call"          -> "Call"
      [] opcode = "call_indirect" -> "IndirectCall"
      [] opcode = "global_value"  -> "UnaryGlobalValue"
      [] opcode = "symbol_value"  -> "UnaryGlobalValue"
      [] opcode = "iadd_imm"      -> "BinaryImm"
      [] opcode = "load"          -> "Load"

fixed_results(opcode) ==
    IF opcode \in {"iconst", "global_value", "symbol_value", "iadd_imm", "load"}
    THEN 1 ELSE 0

is_terminator(opcode) == opcode \in {"return", "jump"}

(* An InstructionData: the payload's structural format, its opcode, its    *)
(* first-type field, and the format's operands.  vlist is the ValueList    *)
(* handle of a variable-arity format: whether it lies in the pool, and the *)
(* values it holds there.                                                  *)
InstData(format, opcode, ty) ==
    [format |-> format, opcode |-> opcode, ty |-> ty,
     args |-> <<>>, vlist |-> [valid |-> TRUE, vals |-> <<>>],
     destination |-> None, table |-> None, func_ref |-> None, sig_ref |-> None,
     global_value |-> None, imm |-> 0, flags |-> {}]

HasValueList(format) ==
    format \in {"MultiAry", "Jump", "Branch", "Call", "IndirectCall"}

(* InstructionData::arguments(pool): the fixed operands, then the list as  *)
(* the pool reads it (a handle outside the pool reads as the empty slice). *)
arguments(data) ==
    IF HasValueList(data.format)
    THEN data.args \o (IF data.vlist.valid THEN data.vlist.vals ELSE <<>>)
    ELSE data.args

-----------------------------------------------------------------------------
(* Arena validity. *)

value_is_valid(v) == v \in 1..Len(values)
ebb_is_valid(e) == e \in 1..Len(ebbs)
sig_is_valid(s) == s \in 1..Len(signatures)
func_ref_is_valid(f) == f \in 1..Len(ext_funcs)
jump_table_is_valid(j) == j \in 1..jump_tables

(* Layout readers. *)
last_inst(ebb) ==
    IF layout_insts[ebb] = <<>> THEN None
    ELSE layout_insts[ebb][Len(layout_insts[ebb])]

(* ValueData: an EBB argument, an instruction result, or an alias. *)
ValueArg(ebb, num, ty) ==
    [kind |-> "Arg", ebb |-> ebb, inst |-> None, num |-> num, original |-> None, ty |-> ty]
ValueResult(inst, num, ty) ==
    [kind |-> "Result", ebb |-> None, inst |-> inst, num |-> num, original |-> None, ty |-> ty]
ValueAlias(original, ty) ==
    [kind |-> "Alias", ebb |-> None, inst |-> None, num |-> 0, original |-> original, ty |-> ty]

(* dfg.value_def(v) *)
value_def(v) == values[v]

(* dfg.resolve_aliases(v): follow the alias links to the value they end at *)
RECURSIVE resolve_aliases(_)
resolve_aliases(v) ==
    IF values[v].kind = "Alias" THEN resolve_aliases(values[v].original) ELSE v

(* The name an error carries for an entity: its kind and its index, as in  *)
(* inst0, ebb1, v2.                                                        *)
EntityName(kind, k) == <<kind, k - 1>>


-----------------------------------------------------------------------------
(* Verifier results: Ok(()), Err(Error {location, message}), or the abort  *)
(* of an out-of-range arena index.  A message is its sequence of words.    *)

Ok == [kind |-> "ok", location |-> <<>>, message |-> <<>>]
Err(loc, msg) == [kind |-> "err", location |-> loc, message |-> msg]
Abort == [kind |-> "abort", location |-> <<>>, message |-> <<>>]
NoResult == [kind |-> "none", location |-> <<>>, message |-> <<>>]

(* The `?` operator: r, unless it is Ok(()), and then rest. *)
Try(r, rest) == IF r.kind = "ok" THEN rest ELSE r

(* String::contains, on words. *)
Contains(msg, part) ==
    \E i \in 1..(Len(msg) - Len(part) + 1) :
        SubSeq(msg, i, i + Len(part) - 1) = part

(* The first result that is not Ok(()) of rs, in order; Ok(()) if none. *)
RECURSIVE FirstFailure(_)
FirstFailure(rs) ==
    IF rs = <<>> THEN Ok ELSE Try(Head(rs), FirstFailure(Tail(rs)))

verify_ebb(inst, e) ==
    IF ~ebb_is_valid(e)
    THEN Err(EntityName("inst", inst), <<"invalid", "ebb", "reference", EntityName("ebb", e)>>)
    ELSE Ok

verify_sig_ref(inst, s) ==
    IF ~sig_is_valid(s)
    THEN Err(EntityName("inst", inst), <<"invalid", "signature", "reference", EntityName("sig", s)>>)
    ELSE Ok

verify_func_ref(inst, f) ==
    IF ~func_ref_is_valid(f)
    THEN Err(EntityName("inst", inst), <<"invalid", "function", "reference", EntityName("fn", f)>>)
    ELSE Ok

verify_value_list(inst, l) ==
    IF ~l.valid
    THEN Err(EntityName("inst", inst), <<"invalid", "value", "list", "reference">>)
    ELSE Ok

verify_jump_table(inst, j) ==
    IF ~jump_table_is_valid(j)
    THEN Err(EntityName("inst", inst), <<"invalid", "jump", "table", "reference", EntityName("jt", j)>>)
    ELSE Ok

verify_value(inst, v) ==
    IF ~value_is_valid(v)
    THEN Err(EntityName("inst", inst), <<"invalid", "value", "reference", EntityName("v", v)>>)
    ELSE Ok

verify_entity_references(inst) ==
    LET data == insts[inst]
        as == arguments(data)
        rs == results[inst]
        byFormat ==
            CASE data.format = "MultiAry" ->
                    verify_value_list(inst, data.vlist)
              [] data.format \in {"Jump", "Branch"} ->
                    Try(verify_ebb(inst, data.destination),
                        verify_value_list(inst, data.vlist))
              [] data.format = "BranchTable" ->
                    verify_jump_table(inst, data.table)
              [] data.format = "Call" ->
                    Try(verify_func_ref(inst, data.func_ref),
                        verify_value_list(inst, data.vlist))
              [] data.format = "IndirectCall" ->
                    Try(verify_sig_ref(inst, data.sig_ref),
                        verify_value_list(inst, data.vlist))
              [] OTHER -> Ok
    IN  Try(FirstFailure([i \in 1..Len(as) |-> verify_value(inst, as[i])]),
        Try(FirstFailure([i \in 1..Len(rs) |-> verify_value(inst, rs[i])]),
            byFormat))

(* dfg.call_signature(inst): Some(sig) of a call payload, None otherwise.  *)
(* The direct callee's signature is read from ext_funcs[func_ref]: an      *)
(* index out of range aborts.                                              *)
call_signature(inst) ==
    LET data == insts[inst] IN
    CASE data.format = "Call" ->
            IF func_ref_is_valid(data.func_ref)
            THEN [aborts |-> FALSE, sig |-> ext_funcs[data.func_ref]]
            ELSE [aborts |-> TRUE, sig |-> None]
      [] data.format = "IndirectCall" -> [aborts |-> FALSE, sig |-> data.sig_ref]
      [] OTHER -> [aborts |-> FALSE, sig |-> None]

(* signatures[sig].return_types.len(): the index aborts out of range. *)
return_types_len(sig) ==
    IF sig_is_valid(sig)
    THEN [aborts |-> FALSE, len |-> signatures[sig]]
    ELSE [aborts |-> TRUE, len |-> 0]

(* instruction_integrity without its first check. *)
instruction_integrity_NoFormatCheck(inst) ==
    LET inst_data == insts[inst]
        cs == call_signature(inst)
        var_results == IF cs.sig = None
                       THEN [aborts |-> cs.aborts, len |-> 0]
                       ELSE return_types_len(cs.sig)
        total_results == fixed_results(inst_data.opcode) + var_results.len
    IN  IF var_results.aborts
        THEN Abort
        ELSE IF total_results = 0 /\ inst_data.ty # VOID
        THEN Err(EntityName("inst", inst), <<"instruction", "expected", "to", "have", "NULL">>)
        ELSE IF total_results # 0 /\ Len(results[inst]) # total_results
        THEN Err(EntityName("inst", inst), <<"expected", "result", "values">>)
        ELSE verify_entity_references(inst)

instruction_integrity(inst) ==
    LET inst_data == insts[inst]
        cs == call_signature(inst)
        var_results == IF cs.sig = None
                       THEN [aborts |-> cs.aborts, len |-> 0]
                       ELSE return_types_len(cs.sig)
        total_results == fixed_results(inst_data.opcode) + var_results.len
        got_results == Len(results[inst])
    IN  IF OpcodeFormat(inst_data.opcode) # inst_data.format
        THEN Err(EntityName("inst", inst),
                 <<"instruction", "opcode", "doesn't", "match", "instruction", "format">>)
        ELSE IF var_results.aborts
        THEN Abort
        ELSE IF total_results = 0
        THEN IF inst_data.ty # VOID
             THEN Err(EntityName("inst", inst),
                      <<"instruction", "expected", "to", "have", "NULL", "return",
                        "value,", "found", inst_data.ty>>)
             ELSE verify_entity_references(inst)
        ELSE IF got_results # total_results
             THEN Err(EntityName("inst", inst),
                      <<"expected", ToString(total_results), "result", "values,",
                        "found", ToString(got_results)>>)
             ELSE verify_entity_references(inst)

(* The check of one formal argument of ebb (the body of the loop). *)
ebb_arg_integrity(ebb, arg) ==
    LET def == value_def(arg) IN
    IF def.kind = "Arg"
    THEN IF ebb # def.ebb
         THEN Err(EntityName("v", arg), <<"does", "not", "belong", "to", EntityName("ebb", ebb)>>)
         ELSE Ok
    ELSE Err(EntityName("v", arg), <<"expected", "an", "argument,", "found", "a", "result">>)

ebb_integrity(ebb, inst) ==
    LET term == is_terminator(insts[inst].opcode)
        is_last_inst == (last_inst(ebb) = inst)
        as == ebbs[ebb]
    IN  IF term /\ ~is_last_inst
        THEN Err(EntityName("inst", inst),
                 <<"a", "terminator", "instruction", "was", "encountered",
                   "before", "the", "end", "of", EntityName("ebb", ebb)>>)
        ELSE IF is_last_inst /\ ~term
        THEN Err(EntityName("ebb", ebb),
                 <<"block", "does", "not", "end", "in", "a", "terminator", "instruction!">>)
        ELSE IF inst_ebb[inst] # ebb
        THEN Err(EntityName("inst", inst),
                 <<"should", "belong", "to", EntityName("ebb", ebb), "not",
                   IF inst_ebb[inst] = None THEN "None" ELSE EntityName("ebb", inst_ebb[inst])>>)
        ELSE FirstFailure([i \in 1..Len(as) |-> ebb_arg_integrity(ebb, as[i])])

(* The loop body with its two calls exchanged. *)
verify_inst_IntegrityFirst(ebb, inst) ==
    Try(instruction_integrity(inst), ebb_integrity(ebb, inst))

(* The body of run's inner loop. *)
verify_inst(ebb, inst) ==
    Try(ebb_integrity(ebb, inst), instruction_integrity(inst))

(* Verifier::run: EBBs in layout order, instructions in program order. *)
run ==
    FirstFailure([j \in 1..Len(layout_ebbs) |->
        LET ebb == layout_ebbs[j] IN
        FirstFailure([k \in 1..Len(layout_insts[ebb]) |->
            verify_inst(ebb, layout_insts[ebb][k])])])

verify_function == run

-----------------------------------------------------------------------------
(* Building a Function, as a frontend does: EBBs are created and laid out  *)
(* in order, each instruction is created, given its results and appended   *)
(* to the EBB being filled.                                                *)

NoExpansion == [op |-> "none", inst |-> None, gv |-> None, ebb |-> None,
                before |-> <<>>, result |-> None, allocated |-> 0]

(* Function::new(), with the signatures, external functions and jump       *)
(* tables the instructions may mention already declared: sig0 returns      *)
(* nothing, sig1 returns one value; fn0 has sig1.                        *)
Init ==
    /\ insts = <<>>
    /\ results = <<>>
    /\ values = <<>>
    /\ ebbs = <<>>
    /\ layout_ebbs = <<>>
    /\ layout_insts = <<>>
    /\ inst_ebb = <<>>
    /\ signatures = <<0, 1>>
    /\ ext_funcs = <<2>>
    /\ jump_tables = 1
    /\ global_values = <<>>
    /\ vmctx = None
    /\ pointer_type = I64
    /\ pc = "build"
    /\ result = NoResult
    /\ last = NoExpansion

(* dfg.make_ebb() and layout.append_ebb(ebb) *)
MakeEbb ==
    /\ pc = "build"
    /\ Len(ebbs) < MaxEbbs
    /\ ebbs' = Append(ebbs, <<>>)
    /\ layout_ebbs' = Append(layout_ebbs, Len(ebbs) + 1)
    /\ layout_insts' = Append(layout_insts, <<>>)
    /\ UNCHANGED <<insts, results, values, inst_ebb, signatures, ext_funcs,
                   jump_tables, global_values, vmctx, pointer_type, pc, result, last>>

(* dfg.append_ebb_arg(entry, ty) for the function's VMContext parameter,   *)
(* the one parameter of the signatures modelled: special_param(VMContext)  *)
(* is that argument of the entry block.                                    *)
AppendEbbArg ==
    /\ pc = "build"
    /\ layout_ebbs # <<>>
    /\ vmctx = None
    /\ LET ebb == layout_ebbs[1] IN
       /\ layout_insts[ebb] = <<>>
       /\ values' = Append(values, ValueArg(ebb, Len(ebbs[ebb]), pointer_type))
       /\ ebbs' = [ebbs EXCEPT ![ebb] = Append(@, Len(values) + 1)]
       /\ vmctx' = Len(values) + 1
    /\ UNCHANGED <<insts, results, layout_ebbs, layout_insts, inst_ebb, signatures,
                   ext_funcs, jump_tables, global_values, pointer_type,
                   pc, result, last>>

(* dfg.change_to_alias(v, target), of a formal argument v *)
ChangeArgToAlias ==
    /\ pc = "build"
    /\ \E v \in 1..Len(values), target \in 1..Len(values) :
        /\ v # target
        /\ values[v].kind = "Arg"
        /\ values[target].kind # "Alias"
        /\ values' = [values EXCEPT ![v] = ValueAlias(target, @.ty)]
    /\ UNCHANGED <<insts, results, ebbs, layout_ebbs, layout_insts, inst_ebb,
                   signatures, ext_funcs, jump_tables, global_values, vmctx,
                   pointer_type, pc, result, last>>

(* The payloads a frontend hands to make_inst: every handle is drawn from  *)
(* its arena's handles and the first one past them.                        *)
InstructionDatas ==
    LET Lists == {[valid |-> TRUE, vals |-> <<>>], [valid |-> FALSE, vals |-> <<>>]}
    IN  {InstData("Nullary", "jump", VOID), InstData("UnaryImm", "iconst", I32)}
        \cup {[InstData("MultiAry", "return", VOID) EXCEPT !.vlist = l] : l \in Lists}
        \cup {InstData("MultiAry", "return", I32)}
        \cup {[InstData("Jump", "jump", VOID) EXCEPT !.destination = e] :
                e \in {1, Len(ebbs) + 1}}
        \cup {[InstData("BranchTable", "br_table", VOID) EXCEPT !.table = j, !.args = <<1>>] :
                j \in 1..(jump_tables + 1)}
        \cup {[InstData("Call", "call", VOID) EXCEPT !.func_ref = f] :
                f \in 1..(Len(ext_funcs) + 1)}
        \cup {[InstData("IndirectCall", "call_indirect", VOID) EXCEPT !.sig_ref = g] :
                g \in 1..(Len(signatures) + 1)}

(* How many results a frontend makes for an instruction. *)
ResultCounts == {0, 1}

(* dfg.make_inst(data), nres results made for it, layout.append_inst(inst, ebb) *)
MakeInst ==
    /\ pc = "build"
    /\ layout_ebbs # <<>>
    /\ Len(insts) < MaxInsts
    /\ \E data \in InstructionDatas, nres \in ResultCounts :
        LET inst == Len(insts) + 1
            ebb == layout_ebbs[Len(layout_ebbs)]
        IN  /\ insts' = Append(insts, data)
            /\ values' = values \o [i \in 1..nres |->
                            ValueResult(inst, i - 1, I32)]
            /\ results' = Append(results, [i \in 1..nres |-> Len(values) + i])
            /\ layout_insts' = [layout_insts EXCEPT ![ebb] = Append(@, inst)]
            /\ inst_ebb' = Append(inst_ebb, ebb)
    /\ UNCHANGED <<ebbs, layout_ebbs, signatures, ext_funcs, jump_tables,
                   global_values, vmctx, pointer_type, pc, result, last>>

(* verify_function(&func) *)
Verify ==
    /\ pc = "build"
    /\ result' = verify_function
    /\ pc' = "verified"
    /\ UNCHANGED <<insts, results, values, ebbs, layout_ebbs, layout_insts, inst_ebb,
                   signatures, ext_funcs, jump_tables, global_values, vmctx,
                   pointer_type, last>>

Next == MakeEbb \/ AppendEbbArg \/ ChangeArgToAlias \/ MakeInst \/ Verify

Spec == Init /\ [][Next]_vars

-----------------------------------------------------------------------------
(* The DFG and layout operations the legalizer calls, on the part of the   *)
(* Function they change.                                                   *)

Func == [insts |-> insts, results |-> results, values |-> values,
         layout_insts |-> layout_insts, inst_ebb |-> inst_ebb]

Install(f) ==
    /\ insts' = f.insts
    /\ results' = f.results
    /\ values' = f.values
    /\ layout_insts' = f.layout_insts
    /\ inst_ebb' = f.inst_ebb

(* s with new put immediately before at *)
InsertBefore(s, at, new) ==
    LET k == CHOOSE k \in 1..Len(s) : s[k] = at IN
    SubSeq(s, 1, k - 1) \o <<new>> \o SubSeq(s, k, Len(s))

(* s without inst, the rest in order *)
RemoveInst(s, inst) == SelectSeq(s, LAMBDA x : x # inst)

(* dfg.first_result(inst) *)
first_result(inst) == results[inst][1]

(* dfg.clear_results(inst) *)
clear_results(f, inst) == [f EXCEPT !.results[inst] = <<>>]

(* dfg.change_to_alias(dest, src) *)
change_to_alias(f, dest, src) ==
    [f EXCEPT !.values[dest] = ValueAlias(src, @.ty)]

(* layout.remove_inst(inst) *)
remove_inst(f, inst) ==
    [f EXCEPT !.layout_insts[f.inst_ebb[inst]] = RemoveInst(@, inst),
              !.inst_ebb[inst] = None]

(* dfg.replace(inst).<opcode>(...): the payload is overwritten, the        *)
(* results and the place in the layout are kept.                           *)
replace(f, inst, data) == [f EXCEPT !.insts[inst] = data]

(* pos.ins().global_value(ty, gv) with the cursor at inst: a fresh         *)
(* instruction with one fresh result, inserted before inst in its EBB.     *)
ins_global_value(f, at, ty, gv) ==
    LET fresh == Len(f.insts) + 1
        ebb == f.inst_ebb[at]
    IN  [f EXCEPT
            !.insts = Append(@, [InstData("UnaryGlobalValue", "global_value", ty)
                                    EXCEPT !.global_value = gv]),
            !.values = Append(@, ValueResult(fresh, 0, ty)),
            !.results = Append(@, <<Len(f.values) + 1>>),
            !.layout_insts[ebb] = InsertBefore(@, at, fresh),
            !.inst_ebb = Append(@, ebb)]

(* The Value the builder returns for the instruction inserted last. *)
inserted_result(f) == f.results[Len(f.insts)][1]

-----------------------------------------------------------------------------
(* Legalization of global values.                                          *)

Expansion(op, inst) ==
    [op |-> op, inst |-> inst, gv |-> insts[inst].global_value,
     ebb |-> inst_ebb[inst], before |-> layout_insts[inst_ebb[inst]],
     result |-> first_result(inst), allocated |-> Len(insts)]

Legalizing ==
    /\ pc' = "legalize"
    /\ UNCHANGED <<ebbs, layout_ebbs, signatures, ext_funcs, jump_tables,
                   global_values, vmctx, pointer_type, result>>

(* .expect("Missing vmctx parameter") on None *)
Panic(inst) ==
    /\ pc' = "panic"
    /\ last' = Expansion("panic", inst)
    /\ UNCHANGED <<insts, results, values, ebbs, layout_ebbs, layout_insts, inst_ebb,
                   signatures, ext_funcs, jump_tables, global_values, vmctx,
                   pointer_type, result>>

(* vmctx_addr that leaves the instruction in the layout. *)
vmctx_addr_NoRemove(inst) ==
    IF vmctx = None THEN Panic(inst)
    ELSE /\ Install(change_to_alias(clear_results(Func, inst), first_result(inst), vmctx))
         /\ last' = Expansion("vmctx_addr", inst)
         /\ Legalizing

vmctx_addr(inst) ==
    IF vmctx = None THEN Panic(inst)
    ELSE LET res == first_result(inst)
             cleared == clear_results(Func, inst)
             aliased == change_to_alias(cleared, res, vmctx)
         IN  /\ Install(remove_inst(aliased, inst))
             /\ last' = Expansion("vmctx_addr", inst)
             /\ Legalizing

(* iadd_imm_addr without the VMContext case: the base always gets its own  *)
(* global_value instruction.                                               *)
iadd_imm_addr_AlwaysInsert(inst, base, offset, global_type) ==
    /\ Len(insts) < MaxLegalInsts
    /\ LET inserted == ins_global_value(Func, inst, global_type, base)
           lhs == inserted_result(inserted)
       IN  Install(replace(inserted, inst,
                [InstData("BinaryImm", "iadd_imm", global_type)
                    EXCEPT !.args = <<lhs>>, !.imm = offset]))
    /\ last' = Expansion("iadd_imm_addr", inst)
    /\ Legalizing

iadd_imm_addr(inst, base, offset, global_type) ==
    IF global_values[base].kind = "VMContext"
    THEN IF vmctx = None THEN Panic(inst)
         ELSE /\ Install(replace(Func, inst,
                    [InstData("BinaryImm", "iadd_imm", values[vmctx].ty)
                        EXCEPT !.args = <<vmctx>>, !.imm = offset]))
              /\ last' = Expansion("iadd_imm_addr", inst)
              /\ Legalizing
    ELSE /\ Len(insts) < MaxLegalInsts
         /\ LET inserted == ins_global_value(Func, inst, global_type, base)
                lhs == inserted_result(inserted)
            IN  Install(replace(inserted, inst,
                    [InstData("BinaryImm", "iadd_imm", global_type)
                        EXCEPT !.args = <<lhs>>, !.imm = offset]))
         /\ last' = Expansion("iadd_imm_addr", inst)
         /\ Legalizing

(* load_addr whose inserted global_value has the global's type, as the one *)
(* of iadd_imm_addr has.                                                   *)
load_addr_GlobalTypeBase(inst, base, offset, global_type) ==
    IF global_values[base].kind = "VMContext"
    THEN IF vmctx = None THEN Panic(inst)
         ELSE /\ Install(replace(Func, inst,
                    [InstData("Load", "load", global_type)
                        EXCEPT !.args = <<vmctx>>, !.imm = offset,
                               !.flags = {"notrap", "aligned"}]))
              /\ last' = Expansion("load_addr", inst)
              /\ Legalizing
    ELSE /\ Len(insts) < MaxLegalInsts
         /\ LET inserted == ins_global_value(Func, inst, global_type, base)
                base_addr == inserted_result(inserted)
            IN  Install(replace(inserted, inst,
                    [InstData("Load", "load", global_type)
                        EXCEPT !.args = <<base_addr>>, !.imm = offset,
                               !.flags = {"notrap", "aligned"}]))
         /\ last' = Expansion("load_addr", inst)
         /\ Legalizing

(* load_addr that asks again for the global value being expanded, not for  *)
(* its base.                                                               *)
load_addr_SameGlobal(inst, base, offset, global_type) ==
    /\ Len(insts) < MaxLegalInsts
    /\ LET inserted == ins_global_value(Func, inst, pointer_type, insts[inst].global_value)
           base_addr == inserted_result(inserted)
       IN  Install(replace(inserted, inst,
                [InstData("Load", "load", global_type)
                    EXCEPT !.args = <<base_addr>>, !.imm = offset,
                           !.flags = {"notrap", "aligned"}]))
    /\ last' = Expansion("load_addr", inst)
    /\ Legalizing

load_addr(inst, base, offset, global_type) ==
    LET ptr_ty == pointer_type
        mflags == {"notrap", "aligned"}
    IN  IF global_values[base].kind = "VMContext"
        THEN IF vmctx = None THEN Panic(inst)
             ELSE /\ Install(replace(Func, inst,
                        [InstData("Load", "load", global_type)
                            EXCEPT !.args = <<vmctx>>, !.imm = offset, !.flags = mflags]))
                  /\ last' = Expansion("load_addr", inst)
                  /\ Legalizing
        ELSE /\ Len(insts) < MaxLegalInsts
             /\ LET inserted == ins_global_value(Func, inst, ptr_ty, base)
                    base_addr == inserted_result(inserted)
                IN  Install(replace(inserted, inst,
                        [InstData("Load", "load", global_type)
                            EXCEPT !.args = <<base_addr>>, !.imm = offset, !.flags = mflags]))
             /\ last' = Expansion("load_addr", inst)
             /\ Legalizing

(* symbol that writes the symbol_value opcode into a payload of another   *)
(* format.                                                                 *)
symbol_OtherFormat(inst, gv) ==
    /\ Install(replace(Func, inst,
            [InstData("UnaryImm", "symbol_value", pointer_type)
                EXCEPT !.global_value = gv]))
    /\ last' = Expansion("symbol", inst)
    /\ Legalizing

symbol(inst, gv) ==
    /\ Install(replace(Func, inst,
            [InstData("UnaryGlobalValue", "symbol_value", pointer_type)
                EXCEPT !.global_value = gv]))
    /\ last' = Expansion("symbol", inst)
    /\ Legalizing

(* The global_value instructions still in the layout. *)
GlobalValueInsts ==
    {i \in 1..Len(insts) : inst_ebb[i] # None /\ insts[i].opcode = "global_value"}

expand_global_value(inst) ==
    LET gv == insts[inst].global_value
        data == global_values[gv]
    IN  \/ data.kind = "VMContext" /\ vmctx_addr(inst)
        \/ data.kind = "IAddImm"
            /\ iadd_imm_addr(inst, data.base, data.offset, data.global_type)
        \/ data.kind = "Load"
            /\ load_addr(inst, data.base, data.offset, data.global_type)
        \/ data.kind = "Symbol" /\ symbol(inst, gv)

(* One turn of the legalizer's loop: some global_value instruction of the  *)
(* layout is expanded.                                                     *)
Legalize ==
    /\ pc = "legalize"
    /\ \E inst \in GlobalValueInsts : expand_global_value(inst)

(* The global values a Function may declare: any base among its handles,   *)
(* cycles included.                                                        *)
GlobalValueDatas(gv, global_type) ==
    {[kind |-> k, base |-> None, offset |-> 0, global_type |-> pointer_type] :
        k \in {"VMContext", "Symbol"}}
    \cup {[kind |-> k, base |-> b, offset |-> 8 * gv, global_type |-> global_type] :
        k \in {"IAddImm", "Load"}, b \in 1..MaxGlobalValues}

(* A Function to legalize: one EBB, with or without the VMContext          *)
(* parameter, holding global_value instructions and the return of the      *)
(* last one's result.                                                      *)
LegalInit ==
    \E hasVmctx \in BOOLEAN, global_type \in {I32, I64},
       n \in 1..MaxGlobalValueInsts :
    \E gvs \in [1..n -> 1..MaxGlobalValues] :
        LET params == IF hasVmctx THEN 1 ELSE 0
            TypeOf(gv) == global_values[gv].global_type
        IN  /\ pointer_type = I64
            /\ global_values \in
                {t \in [1..MaxGlobalValues ->
                            UNION {GlobalValueDatas(g, global_type) : g \in 1..MaxGlobalValues}] :
                    \A g \in 1..MaxGlobalValues : t[g] \in GlobalValueDatas(g, global_type)}
            /\ vmctx = params
            /\ ebbs = << [i \in 1..params |-> i] >>
            /\ layout_ebbs = <<1>>
            /\ insts = [i \in 1..(n + 1) |->
                    IF i <= n
                    THEN [InstData("UnaryGlobalValue", "global_value", TypeOf(gvs[i]))
                            EXCEPT !.global_value = gvs[i]]
                    ELSE [InstData("MultiAry", "return", VOID)
                            EXCEPT !.vlist = [valid |-> TRUE, vals |-> <<params + n>>]]]
            /\ values = [v \in 1..(params + n) |->
                    IF v <= params THEN ValueArg(1, 0, I64)
                    ELSE ValueResult(v - params, 0, TypeOf(gvs[v - params]))]
            /\ results = [i \in 1..(n + 1) |-> IF i <= n THEN <<params + i>> ELSE <<>>]
            /\ layout_insts = << [i \in 1..(n + 1) |-> i] >>
            /\ inst_ebb = [i \in 1..(n + 1) |-> 1]
            /\ signatures = <<>>
            /\ ext_funcs = <<>>
            /\ jump_tables = 0
            /\ pc = "legalize"
            /\ result = NoResult
            /\ last = NoExpansion

LegalNext == Legalize

(* The legalizer's loop runs as long as a global_value instruction is left *)
(* to expand.                                                              *)
LegalSpec == LegalInit /\ [][LegalNext]_vars /\ WF_vars(LegalNext)

-----------------------------------------------------------------------------
(* What the verifier is to establish, stated on the Function itself.       *)

RECURSIVE Concat(_)
Concat(seqs) == IF seqs = <<>> THEN <<>> ELSE Head(seqs) \o Concat(Tail(seqs))

(* The laid-out instructions in program order, each with the EBB whose     *)
(* instruction list yields it.                                             *)
ProgramOrder ==
    Concat([j \in 1..Len(layout_ebbs) |->
        [k \in 1..Len(layout_insts[layout_ebbs[j]]) |->
            [ebb |-> layout_ebbs[j], inst |-> layout_insts[layout_ebbs[j]][k]]]])

Range(f) == {f[i] : i \in DOMAIN f}

Terminators(ebb) ==
    {k \in 1..Len(layout_insts[ebb]) : is_terminator(insts[layout_insts[ebb][k]].opcode)}

FormatMismatch(inst) == OpcodeFormat(insts[inst].opcode) # insts[inst].format

(* The signature a call payload names can be read from the arenas. *)
SignatureReadable(inst) ==
    CASE insts[inst].format = "Call" ->
            /\ func_ref_is_valid(insts[inst].func_ref)
            /\ sig_is_valid(ext_funcs[insts[inst].func_ref])
      [] insts[inst].format = "IndirectCall" -> sig_is_valid(insts[inst].sig_ref)
      [] OTHER -> TRUE

(* fixed_results + variable_results, of an instruction whose signature can *)
(* be read.                                                                *)
TotalResults(inst) ==
    fixed_results(insts[inst].opcode)
    + (CASE insts[inst].format = "Call" -> signatures[ext_funcs[insts[inst].func_ref]]
         [] insts[inst].format = "IndirectCall" -> signatures[insts[inst].sig_ref]
         [] OTHER -> 0)

(* Every handle the instruction mentions is valid in its arena. *)
HandlesValid(inst) ==
    LET data == insts[inst] IN
    /\ \A v \in Range(arguments(data)) \cup Range(results[inst]) : value_is_valid(v)
    /\ HasValueList(data.format) => data.vlist.valid
    /\ data.format \in {"Jump", "Branch"} => ebb_is_valid(data.destination)
    /\ data.format = "BranchTable" => jump_table_is_valid(data.table)
    /\ data.format = "Call" => func_ref_is_valid(data.func_ref)
    /\ data.format = "IndirectCall" => sig_is_valid(data.sig_ref)

BadArgs(ebb) ==
    {i \in 1..Len(ebbs[ebb]) :
        values[ebbs[ebb][i]].kind # "Arg" \/ values[ebbs[ebb][i]].ebb # ebb}

(* The seven checks on the instruction at one place of the program order,  *)
(* in the order of section 4.E: whether the check fails, the entity the    *)
(* error names, and words of its message.                                  *)
Checks(at) ==
    LET ebb == at.ebb
        inst == at.inst
        term == is_terminator(insts[inst].opcode)
        isLast == layout_insts[ebb][Len(layout_insts[ebb])] = inst
        bad == BadArgs(ebb)
        firstBad == CHOOSE i \in bad : \A j \in bad : i <= j
    IN  << [fails |-> term /\ ~isLast,
            location |-> EntityName("inst", inst), words |-> <<"before", "the", "end", "of">>],
           [fails |-> isLast /\ ~term,
            location |-> EntityName("ebb", ebb), words |-> <<"does", "not", "end", "in", "a", "terminator">>],
           [fails |-> inst_ebb[inst] # ebb,
            location |-> EntityName("inst", inst), words |-> <<"should", "belong", "to">>],
           [fails |-> bad # {},
            location |-> IF bad = {} THEN <<>> ELSE EntityName("v", ebbs[ebb][firstBad]),
            words |-> <<>>],
           [fails |-> FormatMismatch(inst),
            location |-> EntityName("inst", inst), words |-> <<"instruction", "format">>],
           [fails |-> /\ SignatureReadable(inst)
                      /\ IF TotalResults(inst) = 0
                         THEN insts[inst].ty # VOID
                         ELSE Len(results[inst]) # TotalResults(inst),
            location |-> EntityName("inst", inst), words |-> <<>>],
           [fails |-> ~HandlesValid(inst),
            location |-> EntityName("inst", inst), words |-> <<"invalid">>] >>

(* All checks of the function, in the order the claim gives. *)
AllChecks ==
    LET order == ProgramOrder IN
    Concat([p \in 1..Len(order) |-> Checks(order[p])])

FailingChecks == {c \in 1..Len(AllChecks) : AllChecks[c].fails}

(* Nothing is wrong with, and nothing stops the verifier at, the           *)
(* instructions before place p or the checks before check c of place p.    *)
PassesUpTo(p, c) ==
    LET order == ProgramOrder IN
    /\ \A q \in 1..(p - 1) :
        LET checks == Checks(order[q]) IN
        /\ \A d \in 1..7 : ~checks[d].fails
        /\ SignatureReadable(order[q].inst)
    /\ LET checks == Checks(order[p]) IN
       \A d \in 1..(c - 1) : ~checks[d].fails

Verified == pc = "verified"

-----------------------------------------------------------------------------
(* Claims about verify_function, checked under Spec.                       *)

(* C1: on every Function verify_function accepts, every EBB of the layout, *)
(* an EBB without instructions included, holds exactly one terminator, and *)
(* it is the EBB's last instruction.                                       *)
C1_OneTerminatorAtTheEnd ==
    (Verified /\ result.kind = "ok") =>
        \A j \in 1..Len(layout_ebbs) :
            LET ebb == layout_ebbs[j] IN
            /\ layout_insts[ebb] # <<>>
            /\ Terminators(ebb) = {Len(layout_insts[ebb])}

(* C2: verify_function never aborts: whatever handles the laid-out         *)
(* instructions mention, it returns Ok(()) or an Error.                    *)
C2_NeverAborts ==
    Verified => result.kind \in {"ok", "err"}

(* C3: on every Function verify_function accepts, every handle mentioned   *)
(* by a laid-out instruction is valid; and when an instruction mentions an *)
(* invalid handle and no earlier check fails, verify_function returns an   *)
(* error located at that instruction.                                      *)
C3_EntityValidity ==
    Verified =>
        /\ result.kind = "ok" =>
            \A p \in 1..Len(ProgramOrder) : HandlesValid(ProgramOrder[p].inst)
        /\ \A p \in 1..Len(ProgramOrder) :
            (~HandlesValid(ProgramOrder[p].inst) /\ PassesUpTo(p, 7)) =>
                /\ result.kind = "err"
                /\ result.location = EntityName("inst", ProgramOrder[p].inst)

(* C4: a Function with a laid-out instruction whose opcode's format is not *)
(* the format of its payload is never accepted; and when that instruction  *)
(* passes the EBB checks and nothing before it in program order fails, the *)
(* error is located at it and its message contains "instruction format".   *)
C4_FormatMismatchReported ==
    Verified =>
        LET order == ProgramOrder
            mismatches == {p \in 1..Len(order) : FormatMismatch(order[p].inst)}
        IN  /\ mismatches # {} => result.kind # "ok"
            /\ \A p \in mismatches :
                PassesUpTo(p, 5) =>
                    /\ result.kind = "err"
                    /\ result.location = EntityName("inst", order[p].inst)
                    /\ Contains(result.message, <<"instruction", "format">>)

(* A format mismatch in the second place of the program order, reached by  *)
(* the verifier, has been reported.                                        *)
C4_Witness ==
    /\ Verified
    /\ \E p \in 2..Len(ProgramOrder) :
        /\ FormatMismatch(ProgramOrder[p].inst)
        /\ PassesUpTo(p, 5)
    /\ result.kind = "err"

(* C5: on every Function verify_function accepts, every laid-out           *)
(* instruction has fixed_results + variable_results results, also when     *)
(* that sum is 0, and then its first type is VOID.                         *)
C5_ResultCount ==
    (Verified /\ result.kind = "ok") =>
        \A p \in 1..Len(ProgramOrder) :
            LET inst == ProgramOrder[p].inst IN
            /\ Len(results[inst]) = TotalResults(inst)
            /\ TotalResults(inst) = 0 => insts[inst].ty = VOID

(* The opcodes of an EBB's instructions, in program order. *)
EbbOpcodes(ebb) == [k \in 1..Len(layout_insts[ebb]) |-> insts[layout_insts[ebb][k]].opcode]

(* The place of an instruction in the program order. *)
PlaceOf(inst) == CHOOSE p \in 1..Len(ProgramOrder) : ProgramOrder[p].inst = inst

-----------------------------------------------------------------------------
(* Claims about expand_global_value, checked under LegalSpec.              *)

(* From g, the base links end at a VMContext or Symbol global value within *)
(* fuel steps.                                                             *)
RECURSIVE ReachesBottom(_, _)
ReachesBottom(g, fuel) ==
    IF global_values[g].kind \in {"VMContext", "Symbol"} THEN TRUE
    ELSE IF fuel = 0 THEN FALSE
    ELSE ReachesBottom(global_values[g].base, fuel - 1)

(* The base relation over the IAddImm and Load global values is acyclic. *)
AcyclicBase ==
    \A g \in 1..Len(global_values) : ReachesBottom(g, Len(global_values))

Legalized == GlobalValueInsts = {}

(* s is t with x put immediately before y *)
IsInsertionBefore(s, t, x, y) ==
    \E k \in 1..Len(t) :
        /\ t[k] = y
        /\ s = SubSeq(t, 1, k - 1) \o <<x, y>> \o SubSeq(t, k + 1, Len(t))

(* s is t with its one occurrence of y taken out *)
IsRemoval(s, t, y) ==
    \E k \in 1..Len(t) :
        /\ t[k] = y
        /\ s = SubSeq(t, 1, k - 1) \o SubSeq(t, k + 1, Len(t))

(* C6: when the base relation is acyclic and the Function has a VMContext  *)
(* parameter, expanding the global_value instructions of the layout in any *)
(* order comes to an end, and no global_value instruction is left in the   *)
(* layout from then on.                                                    *)
C6_ExpansionTerminates ==
    (AcyclicBase /\ vmctx # None) => <>[]Legalized

(* Two chains of global values have been expanded to their ends: every     *)
(* instruction the table allows for has been created, none is left to      *)
(* expand.                                                                 *)
C6_Witness ==
    /\ AcyclicBase
    /\ vmctx # None
    /\ Legalized
    /\ Len(insts) = MaxLegalInsts

(* C7: expanding a global_value instruction I of an IAddImm global value   *)
(* whose base is a VMContext global value leaves I in its slot, now        *)
(* iadd_imm(special_param(VMContext), offset), with the first result it    *)
(* had; no instruction is created or inserted.                             *)
C7_IAddImmOnVMContextInPlace ==
    (last.op = "iadd_imm_addr"
        /\ global_values[global_values[last.gv].base].kind = "VMContext") =>
        /\ insts[last.inst].opcode = "iadd_imm"
        /\ insts[last.inst].format = "BinaryImm"
        /\ insts[last.inst].args = <<vmctx>>
        /\ insts[last.inst].imm = global_values[last.gv].offset
        /\ layout_insts[last.ebb] = last.before
        /\ inst_ebb[last.inst] = last.ebb
        /\ results[last.inst] # <<>>
        /\ first_result(last.inst) = last.result
        /\ Len(insts) = last.allocated
        /\ \A i \in GlobalValueInsts : i \in Range(last.before) /\ i # last.inst

(* Such an expansion has happened, on an instruction that has another one  *)
(* before it in its EBB.                                                   *)
C7_Witness ==
    /\ last.op = "iadd_imm_addr"
    /\ global_values[global_values[last.gv].base].kind = "VMContext"
    /\ last.before[1] # last.inst

(* C8: expanding a global_value instruction I of a Load global value whose *)
(* base is not a VMContext global value creates exactly one instruction,   *)
(* global_value(isa.pointer_type(), base), immediately before I in I's     *)
(* EBB, and I becomes load(global_type, {notrap, aligned}, base_addr,      *)
(* offset) on the fresh instruction's result, with the first result it     *)
(* had.                                                                    *)
C8_LoadOnOtherBaseInsertsOne ==
    (last.op = "load_addr"
        /\ global_values[global_values[last.gv].base].kind # "VMContext") =>
        LET fresh == last.allocated + 1
            gvd == global_values[last.gv]
        IN  /\ Len(insts) = last.allocated + 1
            /\ insts[fresh] = [InstData("UnaryGlobalValue", "global_value", pointer_type)
                                  EXCEPT !.global_value = gvd.base]
            /\ IsInsertionBefore(layout_insts[last.ebb], last.before, fresh, last.inst)
            /\ inst_ebb[fresh] = last.ebb
            /\ inst_ebb[last.inst] = last.ebb
            /\ Len(results[fresh]) = 1
            /\ values[results[fresh][1]] = ValueResult(fresh, 0, pointer_type)
            /\ insts[last.inst].opcode = "load"
            /\ insts[last.inst].format = "Load"
            /\ insts[last.inst].ty = gvd.global_type
            /\ insts[last.inst].flags = {"notrap", "aligned"}
            /\ insts[last.inst].args = <<results[fresh][1]>>
            /\ insts[last.inst].imm = gvd.offset
            /\ results[last.inst] # <<>>
            /\ first_result(last.inst) = last.result

(* Such an expansion has happened, of a global value whose type is not the *)
(* pointer type, on an instruction with another one before it.             *)
C8_Witness ==
    /\ last.op = "load_addr"
    /\ global_values[global_values[last.gv].base].kind # "VMContext"
    /\ global_values[last.gv].global_type # pointer_type
    /\ last.before[1] # last.inst

(* C9: expanding a global_value instruction I of a VMContext global value, *)
(* with result v, leaves v an alias of special_param(VMContext)            *)
(* (value_def reports the alias, resolving v yields the parameter), leaves *)
(* I without results and takes I out of the layout: inst_ebb(I) is None    *)
(* and the other instructions of its EBB keep their order.                 *)
C9_VMContextBecomesAlias ==
    last.op = "vmctx_addr" =>
        /\ value_def(last.result).kind = "Alias"
        /\ value_def(last.result).original = vmctx
        /\ resolve_aliases(last.result) = vmctx
        /\ results[last.inst] = <<>>
        /\ inst_ebb[last.inst] = None
        /\ \A e \in 1..Len(layout_insts) : last.inst \notin Range(layout_insts[e])
        /\ IsRemoval(layout_insts[last.ebb], last.before, last.inst)

(* Such an expansion has happened, on an instruction between two others. *)
C9_Witness ==
    /\ last.op = "vmctx_addr"
    /\ last.before[1] # last.inst
    /\ Len(layout_insts[last.ebb]) >= 2

(* Every laid-out instruction is recorded as a member of the EBB whose     *)
(* instruction list holds it.                                              *)
Contained ==
    \A j \in 1..Len(layout_ebbs) :
        \A k \in 1..Len(layout_insts[layout_ebbs[j]]) :
            inst_ebb[layout_insts[layout_ebbs[j]][k]] = layout_ebbs[j]

(* The last instruction of every EBB of the layout. *)
LastInsts == [j \in 1..Len(layout_ebbs) |-> last_inst(layout_ebbs[j])]

(* C11: expand_global_value preserves well-formedness: when verify_function *)
(* returns Ok(()) on a Function with a VMContext parameter, it returns     *)
(* Ok(()) again after expand_global_value of any global_value instruction  *)
(* of the layout, whichever of the four variants it names; every EBB ends  *)
(* in the terminator it ended in, and every laid-out instruction, a        *)
(* freshly inserted global_value included, is contained in its EBB.        *)
C11_ExpansionPreservesWellFormedness ==
    [][(verify_function = Ok /\ vmctx # None) =>
            /\ verify_function' = Ok
            /\ LastInsts' = LastInsts
            /\ \A j \in 1..Len(layout_ebbs) :
                    is_terminator(insts'[last_inst(layout_ebbs[j])'].opcode)
            /\ Contained']_vars

(* A load whose base is a symbol has been expanded: its base address was   *)
(* inserted as a fresh global_value, which symbol has just replaced by a   *)
(* symbol_value; the Function is accepted.                                 *)
C11_Witness ==
    /\ vmctx # None
    /\ last.op = "symbol"
    /\ \E r \in 1..Len(insts) : insts[r].opcode = "return" /\ last.inst > r
    /\ \E i \in 1..Len(insts) : inst_ebb[i] # None /\ insts[i].opcode = "load"
    /\ verify_function = Ok

=============================================================================
